---------------------------- MODULE Spec2Model ----------------------------
(***************************************************************************)
(* QueryUpdate, the UPDATE statement builder of the ORM                    *)
(* (src/lib/core/models/queries/update.model.ts).                          *)
(*                                                                         *)
(* One builder is modelled: the model instance it is bound to, the table   *)
(* metadata the model registry holds for it, the builder's where-group,    *)
(* and the execution gateway it hands queries to.                          *)
(*                                                                         *)
(* JavaScript values are written as the text of their literal ("7",        *)
(* "false", "'buy milk'", "undefined").  SQL text is held as the sequence  *)
(* of its tokens, so 'UPDATE todo SET title = (?) ' is                     *)
(* <<"UPDATE", "todo", "SET", "title", "=", "(?)">>.                       *)
(***************************************************************************)
EXTENDS Integers, Sequences, FiniteSets, TLC

VARIABLES
    model,          \* the DbHelperModel instance bound to the builder
    table,          \* what ModelManager holds for the model's type
    partial,        \* QueryUpdate.partial
    whereClauses,   \* QueryUpdate.whereClauses
    origin,         \* history: who added each entry of whereClauses
    last,           \* history: the latest build() call and its outcome
    first,          \* history: the first build() call and its outcome
    calls,          \* history: number of build() runs, made directly or by exec()
    callerWheres,   \* history: number of where() calls made by the caller
    whereSinceFirst,\* history: the caller called where() after the first build()
    gateway,        \* the DbQuery values handed to QueryManager.query
    pending,        \* the Observables exec() returned that have yet to emit
    stream,         \* the latest event the gateway emitted on an Observable
    subscriber      \* what the subscriber of that Observable received

vars == <<model, table, partial, whereClauses, origin, last, first, calls,
          callerWheres, whereSinceFirst, gateway, pending, stream, subscriber>>

-----------------------------------------------------------------------------
(* Bounds *)

\* where() calls the caller makes on the builder
MaxWhere == 1

\* build() runs on the builder, made directly or by exec()
MaxCalls == 2

-----------------------------------------------------------------------------
(* JavaScript values *)

Undefined == "undefined"

\* the values an `if (v)` or `a || v` treats as false
Falsy == {"undefined", "null", "0", "false", "''", "NaN"}

Truthy(v) == v \notin Falsy

RECURSIVE IndexOf(_, _)
\* Array.prototype.indexOf, 0-based, -1 when absent
IndexOf(arr, x) ==
    IF arr = <<>> THEN -1
    ELSE IF Head(arr) = x THEN 0
    ELSE LET r == IndexOf(Tail(arr), x) IN IF r < 0 THEN -1 ELSE r + 1

RECURSIVE Join(_, _)
\* Array.prototype.join on a list of tokens, the separator a token sequence
Join(arr, sep) ==
    IF arr = <<>> THEN <<>>
    ELSE IF Len(arr) = 1 THEN <<arr[1]>>
    ELSE <<Head(arr)>> \o sep \o Join(Tail(arr), sep)

-----------------------------------------------------------------------------
(* Clause, ClauseGroup and DbQuery *)

\* new Clause(): comparator defaults to equality, connector to AND
NewClause == [connector |-> "AND", key |-> "", operator |-> "=", value |-> Undefined,
              list |-> <<>>]

Eq(k, v) == [NewClause EXCEPT !.key = k, !.value = v]

RECURSIVE MappingClauses(_)
\* a key -> value mapping read as equality clauses joined by AND
MappingClauses(pairs) ==
    IF pairs = <<>> THEN <<>>
    ELSE <<Eq(pairs[1][1], pairs[1][2])>> \o MappingClauses(Tail(pairs))

\* ClauseGroup.add: a Clause, a Clause array or a key -> value mapping
ClauseGroupAdd(entries, input) ==
    CASE input.shape = "clause"  -> entries \o input.items
      [] input.shape = "array"   -> entries \o input.items
      [] input.shape = "mapping" -> entries \o MappingClauses(input.items)

\* a DbQuery fragment
Fragment(q, p) == [query |-> q, params |-> p]

\* Clause rendering: <key> <operator> (?), or <key> IN (?, ?, ...) for a list
ClauseBuild(c) ==
    IF c.operator = "IN"
    THEN Fragment(<<c.key, "IN", "(">> \o Join([i \in 1..Len(c.list) |-> "?"], <<",">>)
                  \o <<")">>, c.list)
    ELSE Fragment(<<c.key, c.operator, "(?)">>, <<c.value>>)

RECURSIVE ClauseGroupBuild(_)
\* ClauseGroup.build: entries left to right, the first without its connector,
\* the parameters in placeholder order
ClauseGroupBuild(entries) ==
    IF entries = <<>> THEN Fragment(<<>>, <<>>)
    ELSE LET n     == Len(entries)
             prev  == ClauseGroupBuild(SubSeq(entries, 1, n - 1))
             piece == ClauseBuild(entries[n])
             conn  == IF n = 1 THEN <<>> ELSE <<entries[n].connector>>
         IN  Fragment(prev.query \o conn \o piece.query, prev.params \o piece.params)

\* new DbQuery()
NewDbQuery == [table |-> "", type |-> "", query |-> <<>>, params |-> <<>>]

\* DbQuery.append
DbQueryAppend(q, frag) ==
    [q EXCEPT !.query = q.query \o frag.query, !.params = q.params \o frag.params]


-----------------------------------------------------------------------------
(* The model registry and the model instance *)

\* the columns a table can declare, in declared order
Column(n, pk) == [name |-> n, field |-> n, primaryKey |-> pk]

ColumnNames == <<"title", "done", "id">>

\* the column lists a table can declare: a non-empty prefix of the declared
\* columns, any subset of it flagged primary key
ColumnLists ==
    { [i \in 1..n |-> Column(ColumnNames[i], i \in pks)] :
        <<n, pks>> \in { <<k, s>> \in (1..Len(ColumnNames)) \X SUBSET (1..Len(ColumnNames)) :
                            s \subseteq 1..k } }

\* what the registry holds for the model's type; registered = FALSE is a type
\* that was never declared
Registries ==
    [registered : {TRUE}, name : {"todo"}, columnList : ColumnLists]
    \cup {[registered |-> FALSE, name |-> "", columnList |-> <<>>]}

NoProjection == [defined |-> FALSE, names |-> <<>>]

Projection(names) == [defined |-> TRUE, names |-> names]

\* model instances: the row identity, the partial-update projection and the
\* fields
Models ==
    [ rowid : {Undefined, "0", "5"},
      partialWithProjection : {NoProjection, Projection(<<>>), Projection(<<"title">>)},
      fields : [title : {"'buy milk'", "''"}, done : {"false"}, id : {"7"}] ]

\* (this.model as {[index:string]:any})[column.field]
FieldValue(m, f) == m.fields[f]

\* ModelManager.getModel: the metadata, or a lookup error
GetModel(reg) ==
    IF reg.registered THEN [threw |-> FALSE, table |-> reg]
                      ELSE [threw |-> TRUE, table |-> reg]

-----------------------------------------------------------------------------
(* QueryUpdate *)

\* the `type` property of QueryUpdate
UpdateType == "UPDATE"

\* whereClauses before the first where() call
NoGroup == [defined |-> FALSE, entries |-> <<>>]

\* where() putting the new clauses in front of the accumulated ones
WherePrepend(wc, input) ==
    [defined |-> TRUE,
     entries |-> ClauseGroupAdd(<<>>, input) \o (IF wc.defined THEN wc.entries ELSE <<>>)]

\* QueryUpdate.where
Where(wc, input) ==
    [defined |-> TRUE,
     entries |-> ClauseGroupAdd(IF wc.defined THEN wc.entries ELSE <<>>, input)]

ClauseInput(c) == [shape |-> "clause", items |-> <<c>>]

RECURSIVE WhereEach(_, _)
\* successive this.where(clause) calls of build()
WhereEach(wc, clauses) ==
    IF clauses = <<>> THEN wc
    ELSE WhereEach(Where(wc, ClauseInput(Head(clauses))), Tail(clauses))

RECURSIVE PrimaryKeyClauses(_, _)
\* one equality clause per column flagged primary key, in declared order
PrimaryKeyClauses(m, columnList) ==
    IF columnList = <<>> THEN <<>>
    ELSE LET column == Head(columnList)
             rest   == PrimaryKeyClauses(m, Tail(columnList))
         IN  IF column.primaryKey
             THEN <<Eq(column.name, FieldValue(m, column.field))>> \o rest
             ELSE rest

\* the identity clauses build() synthesizes: rowid when the model carries
\* one, the primary keys otherwise
IdentityClauses(m, t) ==
    IF Truthy(m.rowid) THEN <<Eq("rowid", m.rowid)>>
                       ELSE PrimaryKeyClauses(m, t.columnList)

\* a SET list that leaves the primary-key columns to the WHERE clause
ColumnIncludedButKeys(m, column) ==
    /\ ~column.primaryKey
    /\ IF m.partialWithProjection.defined
       THEN \/ IndexOf(m.partialWithProjection.names, column.name) >= 0
            \/ Truthy(FieldValue(m, column.field))
       ELSE TRUE

\* whether build() puts a column in the SET list
ColumnIncluded(m, column) ==
    IF m.partialWithProjection.defined
    THEN \/ IndexOf(m.partialWithProjection.names, column.name) >= 0
         \/ Truthy(FieldValue(m, column.field))
    ELSE TRUE

RECURSIVE ColumnsToUpdate(_, _)
\* the columns of the SET list, in declared order
ColumnsToUpdate(m, columnList) ==
    IF columnList = <<>> THEN <<>>
    ELSE LET column == Head(columnList)
             rest   == ColumnsToUpdate(m, Tail(columnList))
         IN  IF ColumnIncluded(m, column) THEN <<column>> \o rest ELSE rest

\* the values pushed along with columnsToUpdate
Values(m, columns) == [i \in 1..Len(columns) |-> FieldValue(m, columns[i].field)]

\* ' SET ' + columnsToUpdate.join(' = (?), ') + ' = (?) '
SetText(columnsToUpdate) ==
    <<"SET">>
    \o Join([i \in 1..Len(columnsToUpdate) |-> columnsToUpdate[i].name], <<"=", "(?)", ",">>)
    \o <<"=", "(?)">>

\* the WHERE part build() appends to the query
WherePart(q, wc) ==
    IF wc.defined
    THEN DbQueryAppend([q EXCEPT !.query = @ \o <<"WHERE">>], ClauseGroupBuild(wc.entries))
    ELSE q

\* a build() that meets the lookup error only after it created the DbQuery and
\* resolved the identity clauses
ThrownLate(m, reg, wc) ==
    [status |-> "threw", created |-> TRUE, dbQuery |-> NewDbQuery,
     whereClauses |-> WhereEach(wc, IdentityClauses(m, reg))]

\* build() when getModel throws: nothing was created or changed yet
Thrown(m, reg, wc) ==
    [status |-> "threw", created |-> FALSE, dbQuery |-> NewDbQuery, whereClauses |-> wc]

\* QueryUpdate.build: the outcome, the DbQuery returned and the where-group
\* the builder is left with
Build(m, reg, wc) ==
    LET got == GetModel(reg) IN
    IF got.threw
    THEN Thrown(m, reg, wc)
    ELSE LET t       == got.table
             q0      == [NewDbQuery EXCEPT !.table = t.name, !.type = UpdateType]
             wc1     == WhereEach(wc, IdentityClauses(m, t))
             q1      == [q0 EXCEPT !.query = @ \o <<UpdateType, q0.table>>]
             columns == ColumnsToUpdate(m, t.columnList)
             q2      == [q1 EXCEPT !.query = @ \o SetText(columns),
                                   !.params = @ \o Values(m, columns)]
         IN  [status |-> "returned", created |-> TRUE, dbQuery |-> WherePart(q2, wc1),
              whereClauses |-> wc1]

\* an exec() that hands the query to the gateway a second time
ExecQueriesRetry(dbQuery) == <<dbQuery, dbQuery>>

\* the QueryManager.query calls one exec() makes with the DbQuery it built
ExecQueries(dbQuery) == <<dbQuery>>

\* what a subscriber of the Observable exec() returned receives when the
\* gateway emits ev on it
Received(ev) == ev

-----------------------------------------------------------------------------
(* The calls made on the builder *)

\* what the caller passes to where()
CallerInputs ==
    << [shape |-> "array",
        items |-> <<Eq("title", "'x'"),
                    [NewClause EXCEPT !.connector = "OR", !.key = "done", !.operator = "IN",
                                      !.list = <<"true", "false">>]>>],
       [shape |-> "array", items |-> <<>>],
       [shape |-> "mapping", items |-> <<>>] >>

NoCall == [op |-> "none", n |-> 0, status |-> "none", created |-> FALSE,
           dbQuery |-> NewDbQuery, before |-> NoGroup, after |-> NoGroup,
           origin |-> <<>>]

Init ==
    /\ model \in Models
    /\ table \in Registries
    /\ partial \in BOOLEAN
    /\ whereClauses = NoGroup
    /\ origin = <<>>
    /\ last = NoCall
    /\ first = NoCall
    /\ calls = 0
    /\ callerWheres = 0
    /\ whereSinceFirst = FALSE
    /\ gateway = <<>>
    /\ pending = 0
    /\ stream = "none"
    /\ subscriber = "none"

\* the history of one more entry per clause added to the where-group
Grown(wc, by) == origin \o [i \in 1..(Len(wc.entries) - Len(origin)) |-> by]

\* the caller calls where(input)
CallWhere ==
    /\ callerWheres < MaxWhere
    /\ \E i \in 1..Len(CallerInputs) :
         LET wc == Where(whereClauses, CallerInputs[i]) IN
         /\ whereClauses' = wc
         /\ origin' = Grown(wc, "caller")
    /\ callerWheres' = callerWheres + 1
    /\ whereSinceFirst' = (first.op # "none")
    /\ UNCHANGED <<model, table, partial, last, first, calls, gateway, pending, stream,
                   subscriber>>

\* the record of a build() call, made directly or by exec()
Called(op, out) ==
    [op |-> op, n |-> calls + 1, status |-> out.status, created |-> out.created,
     dbQuery |-> out.dbQuery, before |-> whereClauses, after |-> out.whereClauses,
     origin |-> Grown(out.whereClauses, "identity")]

BuildStep(op, out) ==
    /\ calls < MaxCalls
    /\ calls' = calls + 1
    /\ whereClauses' = out.whereClauses
    /\ origin' = Grown(out.whereClauses, "identity")
    /\ last' = Called(op, out)
    /\ first' = IF first.op = "none" THEN Called(op, out) ELSE first
    /\ UNCHANGED <<model, table, partial, callerWheres, whereSinceFirst>>

\* the caller calls build()
CallBuild ==
    /\ BuildStep("build", Build(model, table, whereClauses))
    /\ UNCHANGED <<gateway, pending, stream, subscriber>>

\* the caller calls exec() and subscribes to the Observable it returns
CallExec ==
    LET out == Build(model, table, whereClauses)
        qs  == IF out.status = "returned" THEN ExecQueries(out.dbQuery) ELSE <<>>
    IN  /\ BuildStep("exec", out)
        /\ gateway' = gateway \o qs
        /\ pending' = pending + Len(qs)
        /\ UNCHANGED <<stream, subscriber>>

\* the gateway emits its one result or error on an Observable, which completes
GatewayEmit ==
    /\ pending > 0
    /\ pending' = pending - 1
    /\ \E ev \in {"result", "error"} :
         /\ stream' = ev
         /\ subscriber' = Received(ev)
    /\ UNCHANGED <<model, table, partial, whereClauses, origin, last, first, calls,
                   callerWheres, whereSinceFirst, gateway>>

Next == CallWhere \/ CallBuild \/ CallExec \/ GatewayEmit

Spec == Init /\ [][Next]_vars

-----------------------------------------------------------------------------
(* Reading a DbQuery back *)

RECURSIVE Count(_, _)
\* the number of tokens of q that are in S
Count(q, S) ==
    IF q = <<>> THEN 0
    ELSE (IF Head(q) \in S THEN 1 ELSE 0) + Count(Tail(q), S)

\* the placeholders of a query text
Placeholders(q) == Count(q, {"(?)", "?"})

RECURSIVE Position(_, _)
\* the place of the first token tok in q, Len(q) + 1 when there is none
Position(q, tok) ==
    IF q = <<>> \/ Head(q) = tok THEN 1 ELSE 1 + Position(Tail(q), tok)

\* the text up to the WHERE keyword, and the text after it
BeforeWhere(q) == SubSeq(q, 1, Position(q, "WHERE") - 1)

AfterWhere(q) == SubSeq(q, Position(q, "WHERE") + 1, Len(q))

\* the columns named in the SET list of a query text
SetColumns(q) ==
    LET set == SubSeq(BeforeWhere(q), Position(q, "SET") + 1, Len(BeforeWhere(q)))
    IN  SelectSeq(set, LAMBDA tok : tok \notin {"=", "(?)", ","})

\* the entries of a where-group that `who` added
AddedBy(call, who) ==
    LET idx == { i \in 1..Len(call.origin) : call.origin[i] = who }
        RECURSIVE Pick(_)
        Pick(i) == IF i > Len(call.origin) THEN <<>>
                   ELSE (IF i \in idx THEN <<call.after.entries[i]>> ELSE <<>>) \o Pick(i + 1)
    IN  Pick(1)

\* the entries a build() call added to the where-group it found
AddedByBuild(call) ==
    SubSeq(call.after.entries, Len(call.before.entries) + 1, Len(call.after.entries))

Names(columns) == [i \in 1..Len(columns) |-> columns[i].name]

Returned == last.status = "returned"

\* the todo model of the round-trip example: columns title, done and id, id the
\* primary key, no row identity, no projection
TodoCase ==
    /\ table = [registered |-> TRUE, name |-> "todo",
                columnList |-> <<Column("title", FALSE), Column("done", FALSE),
                                 Column("id", TRUE)>>]
    /\ model = [rowid |-> Undefined, partialWithProjection |-> NoProjection,
                fields |-> [title |-> "'buy milk'", done |-> "false", id |-> "7"]]

-----------------------------------------------------------------------------
(* Properties *)

\* C1: the DbQuery build() returns has as many params as its text has
\* placeholders.
C1_ParamsMatchPlaceholders ==
    Returned => Len(last.dbQuery.params) = Placeholders(last.dbQuery.query)

\* C2, as stated: the params are the SET values, then the values of the
\* identity clauses build() synthesized, then the values of the clauses the
\* caller added through where().
C2_IdentityBeforeCaller ==
    Returned =>
        last.dbQuery.params =
            Values(model, ColumnsToUpdate(model, table.columnList))
            \o ClauseGroupBuild(AddedBy(last, "identity")).params
            \o ClauseGroupBuild(AddedBy(last, "caller")).params

\* C2, amended: the params are the SET values, then the WHERE values in the
\* order the clauses were added to the where-group, one per WHERE placeholder:
\* what the group held before the build() comes first, the identity clauses
\* this build() synthesized come last, so that on a first build() every
\* caller-added clause precedes every identity clause.
C2_CallerBeforeIdentity ==
    Returned =>
        /\ last.dbQuery.params =
               Values(model, ColumnsToUpdate(model, table.columnList))
               \o ClauseGroupBuild(last.after.entries).params
        /\ last.after.entries = last.before.entries \o IdentityClauses(model, table)
        /\ Placeholders(AfterWhere(last.dbQuery.query))
               = Len(ClauseGroupBuild(last.after.entries).params)
        /\ last.n = 1 =>
               \A i, j \in 1..Len(last.origin) :
                   (last.origin[i] = "caller" /\ last.origin[j] = "identity") => i < j

\* C2 witness: a first build() on a builder that holds caller-added clauses
\* and synthesizes identity clauses.
C2_Witness ==
    /\ Returned
    /\ last.n = 1
    /\ AddedBy(last, "caller") # <<>>
    /\ AddedBy(last, "identity") # <<>>

\* C3: with a non-null row identity on the model, the first build() adds
\* exactly one identity predicate, rowid = (?) bound to it.
C3_RowidPrecedence ==
    (model.rowid \notin {Undefined, "null"} /\ first.status = "returned") =>
        AddedByBuild(first) = <<Eq("rowid", model.rowid)>>

\* C4: with no row identity and no caller-added clause, the WHERE group of the
\* DbQuery build() returns is one equality predicate per primary-key column,
\* in declared order, and nothing else.
C4_PrimaryKeyPredicates ==
    (Returned /\ model.rowid = Undefined /\ AddedBy(last, "caller") = <<>>) =>
        /\ last.after.entries = PrimaryKeyClauses(model, table.columnList)
        /\ AfterWhere(last.dbQuery.query)
               = ClauseGroupBuild(PrimaryKeyClauses(model, table.columnList)).query

\* C5: the SET list holds, in declared order, the columns named in the
\* projection or with a truthy value when the builder is in partial mode with
\* a projection, and every column otherwise, partial = false included.
C5_SetListSelection ==
    Returned =>
        LET chosen ==
                IF partial /\ model.partialWithProjection.defined
                THEN SelectSeq(table.columnList,
                               LAMBDA c : \/ \E i \in 1..Len(model.partialWithProjection.names) :
                                               model.partialWithProjection.names[i] = c.name
                                          \/ Truthy(FieldValue(model, c.field)))
                ELSE table.columnList
        IN  /\ SetColumns(last.dbQuery.query) = Names(chosen)
            /\ SubSeq(last.dbQuery.params, 1, Len(chosen)) = Values(model, chosen)

\* C6: with no row identity, no primary-key column and no clause added by the
\* caller, the text build() emits holds no WHERE keyword.
C6_NoEmptyWhere ==
    (/\ Returned
     /\ model.rowid = Undefined
     /\ PrimaryKeyClauses(model, table.columnList) = <<>>
     /\ AddedBy(last, "caller") = <<>>) =>
        Count(last.dbQuery.query, {"WHERE"}) = 0

\* C7, as stated: the todo model builds to
\* UPDATE todo SET title = (?), done = (?) WHERE id = (?)
\* with params 'buy milk', false, 7.
C7_RoundTripAsStated ==
    (TodoCase /\ Returned /\ AddedBy(last, "caller") = <<>>) =>
        /\ last.dbQuery.query =
               <<"UPDATE", "todo", "SET", "title", "=", "(?)", ",", "done", "=", "(?)",
                 "WHERE", "id", "=", "(?)">>
        /\ last.dbQuery.params = <<"'buy milk'", "false", "7">>

\* C7, amended: every build() of the todo model emits the SET list
\* title = (?), done = (?), id = (?) with 'buy milk', false, 7 as the first
\* params, and the first build(), the caller having added no clause, yields
\* UPDATE todo SET title = (?), done = (?), id = (?) WHERE id = (?)
\* with params 'buy milk', false, 7, 7.
C7_RoundTrip ==
    /\ (TodoCase /\ Returned) =>
           /\ BeforeWhere(last.dbQuery.query) =
                  <<"UPDATE", "todo", "SET", "title", "=", "(?)", ",", "done", "=", "(?)",
                    ",", "id", "=", "(?)">>
           /\ SubSeq(last.dbQuery.params, 1, 3) = <<"'buy milk'", "false", "7">>
    /\ (TodoCase /\ first.status = "returned" /\ AddedBy(first, "caller") = <<>>) =>
           /\ first.dbQuery.query =
                  <<"UPDATE", "todo", "SET", "title", "=", "(?)", ",", "done", "=", "(?)",
                    ",", "id", "=", "(?)", "WHERE", "id", "=", "(?)">>
           /\ first.dbQuery.params = <<"'buy milk'", "false", "7", "7">>

\* C7 witness: the first build() of the todo model, no clause added by the
\* caller.
C7_Witness ==
    /\ TodoCase
    /\ Returned
    /\ last.n = 1
    /\ AddedBy(last, "caller") = <<>>

\* C8: for an unregistered model, build() throws before a DbQuery is created or
\* text emitted, leaves the where-group as it was, and exec() hands nothing to
\* the gateway.
C8_UnregisteredFailsFast ==
    ~table.registered =>
        /\ last.op # "none" =>
               /\ last.status = "threw"
               /\ ~last.created
               /\ last.dbQuery = NewDbQuery
               /\ last.after = last.before
        /\ gateway = <<>>
        /\ pending = 0

\* C8 witness: exec() was called on a builder of an unregistered model after
\* the caller added a clause.
C8_Witness ==
    /\ ~table.registered
    /\ last.op = "exec"
    /\ last.status = "threw"
    /\ last.before.entries # <<>>

\* C9: an exec() runs build() once and hands the DbQuery it returned to the
\* gateway once; no other step calls the gateway, an emitted error included;
\* the subscriber receives what the gateway emits.
C9_ExecDelegates ==
    [][ /\ (last'.n # last.n /\ last'.op = "exec") =>
               /\ calls' = calls + 1
               /\ last'.status = "returned" =>
                      /\ gateway' = Append(gateway, last'.dbQuery)
                      /\ pending' = pending + 1
               /\ last'.status = "threw" => (gateway' = gateway /\ pending' = pending)
        /\ ~(last'.n # last.n /\ last'.op = "exec") => gateway' = gateway
        /\ pending' < pending => (subscriber' = stream' /\ calls' = calls)
      ]_vars

\* C9 witness: the gateway emitted an error on the Observable of an exec().
C9_Witness ==
    /\ last.op = "exec"
    /\ Len(gateway) = 1
    /\ stream = "error"
    /\ subscriber = "error"

\* C10: with no where() call by the caller since the first build(), a build()
\* returns the text and params of the first and leaves the where-group as it
\* found it.
C10_BuildRepeatable ==
    (Returned /\ ~whereSinceFirst) =>
        /\ last.dbQuery.query = first.dbQuery.query
        /\ last.dbQuery.params = first.dbQuery.params
        /\ last.after = last.before

=============================================================================
